---- MODULE Spec2Model ----
(***************************************************************************)
(* Model of package gorm (src/entry.go): the connection registry Get with  *)
(* its RWMutex, singleflight group and name-to-handle map; the otel plugin *)
(* Initialize with its error accumulator; and the before/after span hooks. *)
(***************************************************************************)
EXTENDS Integers, Sequences, FiniteSets, TLC

(* ---------------- bounds ---------------- *)
NumProcs == 3
MaxOps == 1
MaxTicks == 2
MaxOpts == 3
MaxAdds == 3

(* ---------------- registry: values ---------------- *)
Procs == 1..NumProcs
Names == {"a", "b"}
Dsns == {"dsn1", "dsn2"}
OpenErrs == {"refused"}

NoProc == 0
NoCall == 0
NilDB == 0
NilErr == "nil"
NoDsn == "none"
NoCallRec == [key |-> "", dsn |-> NoDsn, opened |-> FALSE, done |-> FALSE,
              val |-> NilDB, err |-> NilErr]

VARIABLES
  pc, name, dsn, db, err, call, outcome,
  startCached, startCompleted,
  dbs, rwlReaders, rwlWriter, sfgM, calls, used, stored

regVars == <<pc, name, dsn, db, err, call, outcome, startCached,
             startCompleted, dbs, rwlReaders, rwlWriter, sfgM, calls, used, stored>>

(* plugin Initialize: registrations attempted so far, hooks installed on the
   handle, the accumulator e.errs, and what Initialize returned *)
VARIABLES regLog, hooks, errs, initRet

plugVars == <<regLog, hooks, errs, initRet>>

(* hooks: per operation its context, statement, per-call instance store and
   the hooks the host has run; the tracer's spans, the log, the clock *)
VARIABLES opCtx, opStmt, inst, ran, spans, logs, now

hookVars == <<opCtx, opStmt, inst, ran, spans, logs, now>>

(* New: the options New was given, and the plugin it returned (none, or one
   plugin, which is its options record op.opt) *)
VARIABLES given, plugin

optVars == <<given, plugin>>

(* one myError: the add calls made on it, its errs, and what toError returned
   (nothing yet, or one result) *)
VARIABLES accLog, accErrs, accRet

accVars == <<accLog, accErrs, accRet>>

(* package-level state after initialisation, and no Get call made yet *)
InitRegistry ==
  /\ pc = [p \in Procs |-> "idle"]
  /\ name = [p \in Procs |-> "a"]
  /\ dsn = [p \in Procs |-> NoDsn]
  /\ db = [p \in Procs |-> NilDB]
  /\ err = [p \in Procs |-> NilErr]
  /\ call = [p \in Procs |-> NoCall]
  /\ outcome = [p \in Procs |-> [kind |-> "none", db |-> NilDB, err |-> NilErr]]
  /\ startCached = [p \in Procs |-> NilDB]
  /\ startCompleted = [p \in Procs |-> {}]
  /\ dbs = [n \in Names |-> NilDB]
  /\ rwlReaders = {}
  /\ rwlWriter = NoProc
  /\ sfgM = [n \in Names |-> NoCall]
  /\ calls = [p \in Procs |-> NoCallRec]
  /\ used = {}
  /\ stored = {}

(* calls of the singleflight group for key n that have ended and left the map *)
Completed(n) ==
  {c \in Procs : calls[c].key = n /\ calls[c].done /\ sfgM[n] # c}

(* Get(ctx, name, dsn) is entered and rwl.RLock() returns: RLock blocks while
   a writer holds or waits for the lock *)
RLock(p, n, d) ==
  /\ pc[p] = "idle"
  /\ rwlWriter = NoProc
  /\ rwlReaders' = rwlReaders \cup {p}
  /\ name' = [name EXCEPT ![p] = n]
  /\ dsn' = [dsn EXCEPT ![p] = d]
  /\ startCached' = [startCached EXCEPT ![p] = dbs[n]]
  /\ startCompleted' = [startCompleted EXCEPT ![p] = Completed(n)]
  /\ pc' = [pc EXCEPT ![p] = "read"]
  /\ UNCHANGED <<db, err, call, outcome, dbs, rwlWriter, sfgM, calls, used,
                 stored>>
  /\ UNCHANGED <<plugVars, hookVars, optVars, accVars>>

(* a faulty variant: a present entry is not returned, the caller goes on to sfg.Do *)
HitFallsToSlowPath(p) ==
  /\ pc[p] = "read"
  /\ dbs[name[p]] # NilDB
  /\ rwlReaders' = rwlReaders \ {p}
  /\ pc' = [pc EXCEPT ![p] = "do"]
  /\ UNCHANGED <<name, dsn, db, err, call, outcome, startCached,
                 startCompleted, dbs, rwlWriter, sfgM, calls, used, stored>>
  /\ UNCHANGED <<plugVars, hookVars, optVars, accVars>>

(* v, ok := dbs[name]; ok: db = v; rwl.RUnlock(); return *)
Hit(p) ==
  /\ pc[p] = "read"
  /\ dbs[name[p]] # NilDB
  /\ rwlReaders' = rwlReaders \ {p}
  /\ outcome' = [outcome EXCEPT ![p] =
                   [kind |-> "return", db |-> dbs[name[p]], err |-> err[p]]]
  /\ pc' = [pc EXCEPT ![p] = "done"]
  /\ dsn' = [dsn EXCEPT ![p] = NoDsn]
  /\ UNCHANGED <<name, db, err, call, startCached, startCompleted, dbs,
                 rwlWriter, sfgM, calls, used, stored>>
  /\ UNCHANGED <<plugVars, hookVars, optVars, accVars>>

(* a faulty variant: the read lock is kept across the slow path *)
MissKeepsRLock(p) ==
  /\ pc[p] = "read"
  /\ dbs[name[p]] = NilDB
  /\ pc' = [pc EXCEPT ![p] = "do"]
  /\ UNCHANGED <<name, dsn, db, err, call, outcome, startCached,
                 startCompleted, dbs, rwlReaders, rwlWriter, sfgM, calls, used,
                 stored>>
  /\ UNCHANGED <<plugVars, hookVars, optVars, accVars>>

(* v, ok := dbs[name]; !ok: rwl.RUnlock() *)
Miss(p) ==
  /\ pc[p] = "read"
  /\ dbs[name[p]] = NilDB
  /\ rwlReaders' = rwlReaders \ {p}
  /\ pc' = [pc EXCEPT ![p] = "do"]
  /\ UNCHANGED <<name, dsn, db, err, call, outcome, startCached,
                 startCompleted, dbs, rwlWriter, sfgM, calls, used, stored>>
  /\ UNCHANGED <<plugVars, hookVars, optVars, accVars>>

(* sfg.Do(name, fn), no call in flight for the key: this caller runs fn; the
   closure holds dsn until gorm.Open has used it *)
DoLead(p) ==
  /\ pc[p] = "do"
  /\ sfgM[name[p]] = NoCall
  /\ calls' = [calls EXCEPT ![p] = [key |-> name[p], dsn |-> dsn[p],
                                    opened |-> FALSE, done |-> FALSE,
                                    val |-> NilDB, err |-> NilErr]]
  /\ sfgM' = [sfgM EXCEPT ![name[p]] = p]
  /\ call' = [call EXCEPT ![p] = p]
  /\ pc' = [pc EXCEPT ![p] = "open"]
  /\ dsn' = [dsn EXCEPT ![p] = NoDsn]
  /\ UNCHANGED <<name, db, err, outcome, startCached, startCompleted,
                 dbs, rwlReaders, rwlWriter, used, stored>>
  /\ UNCHANGED <<plugVars, hookVars, optVars, accVars>>

(* sfg.Do(name, fn), a call is in the map for the key: wait for its result *)
DoJoin(p) ==
  /\ pc[p] = "do"
  /\ sfgM[name[p]] # NoCall
  /\ call' = [call EXCEPT ![p] = sfgM[name[p]]]
  /\ pc' = [pc EXCEPT ![p] = "wait"]
  /\ dsn' = [dsn EXCEPT ![p] = NoDsn]
  /\ UNCHANGED <<name, db, err, outcome, startCached, startCompleted,
                 dbs, rwlReaders, rwlWriter, sfgM, calls, used, stored>>
  /\ UNCHANGED <<plugVars, hookVars, optVars, accVars>>

(* db, err = gorm.Open(mysql.Open(dsn), ...) succeeds: a fresh handle *)
OpenOk(p) ==
  /\ pc[p] = "open"
  /\ calls' = [calls EXCEPT ![call[p]].opened = TRUE, ![call[p]].dsn = NoDsn]
  /\ db' = [db EXCEPT ![p] = call[p]]
  /\ err' = [err EXCEPT ![p] = NilErr]
  /\ pc' = [pc EXCEPT ![p] = "use"]
  /\ UNCHANGED <<name, dsn, call, outcome, startCached, startCompleted,
                 dbs, rwlReaders, rwlWriter, sfgM, used, stored>>
  /\ UNCHANGED <<plugVars, hookVars, optVars, accVars>>

(* a faulty variant: the failure does not leave the closure, which goes on to
   attach the plugin and publish *)
OpenFailFallsThrough(p, e) ==
  /\ pc[p] = "open"
  /\ calls' = [calls EXCEPT ![call[p]].opened = TRUE, ![call[p]].dsn = NoDsn]
  /\ db' = [db EXCEPT ![p] = call[p]]
  /\ err' = [err EXCEPT ![p] = e]
  /\ pc' = [pc EXCEPT ![p] = "use"]
  /\ UNCHANGED <<name, dsn, call, outcome, startCached, startCompleted,
                 dbs, rwlReaders, rwlWriter, sfgM, used, stored>>
  /\ UNCHANGED <<plugVars, hookVars, optVars, accVars>>

(* db, err = gorm.Open(...) fails: if err != nil { return nil, err } *)
OpenFail(p, e) ==
  /\ pc[p] = "open"
  /\ calls' = [calls EXCEPT ![call[p]].opened = TRUE, ![call[p]].dsn = NoDsn]
  /\ db' = [db EXCEPT ![p] = NilDB]
  /\ err' = [err EXCEPT ![p] = e]
  /\ pc' = [pc EXCEPT ![p] = "fnret"]
  /\ UNCHANGED <<name, dsn, call, outcome, startCached, startCompleted,
                 dbs, rwlReaders, rwlWriter, sfgM, used, stored>>
  /\ UNCHANGED <<plugVars, hookVars, optVars, accVars>>

(* a faulty variant: the plugin is not attached before the handle is published *)
UseSkipped(p) ==
  /\ pc[p] = "use"
  /\ pc' = [pc EXCEPT ![p] = "lock"]
  /\ UNCHANGED <<name, dsn, db, err, call, outcome, startCached,
                 startCompleted, dbs, rwlReaders, rwlWriter, sfgM, calls, used,
                 stored>>
  /\ UNCHANGED <<plugVars, hookVars, optVars, accVars>>

(* db.Use(New(WithLogResult(false), WithSqlParameters(true))), result dropped *)
Use(p) ==
  /\ pc[p] = "use"
  /\ used' = used \cup {db[p]}
  /\ pc' = [pc EXCEPT ![p] = "lock"]
  /\ UNCHANGED <<name, dsn, db, err, call, outcome, startCached,
                 startCompleted, dbs, rwlReaders, rwlWriter, sfgM, calls, stored>>
  /\ UNCHANGED <<plugVars, hookVars, optVars, accVars>>

(* rwl.Lock(), first half: the writer excludes other writers and new readers *)
LockBegin(p) ==
  /\ pc[p] = "lock"
  /\ rwlWriter = NoProc
  /\ rwlWriter' = p
  /\ pc' = [pc EXCEPT ![p] = "lockwait"]
  /\ UNCHANGED <<name, dsn, db, err, call, outcome, startCached,
                 startCompleted, dbs, rwlReaders, sfgM, calls, used, stored>>
  /\ UNCHANGED <<plugVars, hookVars, optVars, accVars>>

(* a faulty variant: the writer does not wait for the active readers *)
LockAcquireAmongReaders(p) ==
  /\ pc[p] = "lockwait"
  /\ rwlWriter = p
  /\ pc' = [pc EXCEPT ![p] = "store"]
  /\ UNCHANGED <<name, dsn, db, err, call, outcome, startCached,
                 startCompleted, dbs, rwlReaders, rwlWriter, sfgM, calls, used,
                 stored>>
  /\ UNCHANGED <<plugVars, hookVars, optVars, accVars>>

(* rwl.Lock(), second half: the active readers have left *)
LockAcquire(p) ==
  /\ pc[p] = "lockwait"
  /\ rwlWriter = p
  /\ rwlReaders = {}
  /\ pc' = [pc EXCEPT ![p] = "store"]
  /\ UNCHANGED <<name, dsn, db, err, call, outcome, startCached,
                 startCompleted, dbs, rwlReaders, rwlWriter, sfgM, calls, used,
                 stored>>
  /\ UNCHANGED <<plugVars, hookVars, optVars, accVars>>

(* dbs[name] = db; return db, nil; deferred rwl.Unlock() *)
Store(p) ==
  /\ pc[p] = "store"
  /\ dbs' = [dbs EXCEPT ![name[p]] = db[p]]
  /\ stored' = stored \cup {[name |-> name[p], db |-> db[p],
                             failed |-> err[p] # NilErr]}
  /\ rwlWriter' = NoProc
  /\ pc' = [pc EXCEPT ![p] = "fnret"]
  /\ UNCHANGED <<name, dsn, db, err, call, outcome, startCached,
                 startCompleted, rwlReaders, sfgM, calls, used>>
  /\ UNCHANGED <<plugVars, hookVars, optVars, accVars>>

(* singleflight: c.val, c.err = fn(); c.wg.Done() *)
FnReturn(p) ==
  /\ pc[p] = "fnret"
  /\ calls' = [calls EXCEPT ![call[p]] =
                 [@ EXCEPT !.done = TRUE,
                           !.val = IF err[p] # NilErr THEN NilDB ELSE db[p],
                           !.err = err[p]]]
  /\ pc' = [pc EXCEPT ![p] = "forget"]
  /\ UNCHANGED <<name, dsn, db, err, call, outcome, startCached,
                 startCompleted, dbs, rwlReaders, rwlWriter, sfgM, used, stored>>
  /\ UNCHANGED <<plugVars, hookVars, optVars, accVars>>

\* return v.(<ptr>gorm.DB), err: the type assertion panics on a nil interface
Return(p, val) ==
  IF val = NilDB
    THEN [kind |-> "panic", db |-> NilDB, err |-> NilErr]
    ELSE [kind |-> "return", db |-> val, err |-> err[p]]

(* singleflight: delete(g.m, key); Do returns c.val to the leader, Get returns *)
Forget(p) ==
  /\ pc[p] = "forget"
  /\ sfgM' = [sfgM EXCEPT ![name[p]] = NoCall]
  /\ outcome' = [outcome EXCEPT ![p] = Return(p, calls[call[p]].val)]
  /\ pc' = [pc EXCEPT ![p] = "done"]
  /\ dsn' = [dsn EXCEPT ![p] = NoDsn]
  /\ db' = [db EXCEPT ![p] = NilDB]
  /\ err' = [err EXCEPT ![p] = NilErr]
  /\ UNCHANGED <<name, call, startCached, startCompleted, dbs,
                 rwlReaders, rwlWriter, calls, used, stored>>
  /\ UNCHANGED <<plugVars, hookVars, optVars, accVars>>

(* singleflight: c.wg.Wait() ends; Do returns c.val to a waiter, Get returns *)
WaitDone(p) ==
  /\ pc[p] = "wait"
  /\ calls[call[p]].done
  /\ outcome' = [outcome EXCEPT ![p] = Return(p, calls[call[p]].val)]
  /\ pc' = [pc EXCEPT ![p] = "done"]
  /\ dsn' = [dsn EXCEPT ![p] = NoDsn]
  /\ db' = [db EXCEPT ![p] = NilDB]
  /\ err' = [err EXCEPT ![p] = NilErr]
  /\ UNCHANGED <<name, call, startCached, startCompleted, dbs,
                 rwlReaders, rwlWriter, sfgM, calls, used, stored>>
  /\ UNCHANGED <<plugVars, hookVars, optVars, accVars>>

Next ==
  \E p \in Procs :
    \/ \E n \in Names, d \in Dsns : RLock(p, n, d)
    \/ Hit(p)
    \/ Miss(p)
    \/ DoLead(p)
    \/ DoJoin(p)
    \/ OpenOk(p)
    \/ \E e \in OpenErrs : OpenFail(p, e)
    \/ Use(p)
    \/ LockBegin(p)
    \/ LockAcquire(p)
    \/ Store(p)
    \/ FnReturn(p)
    \/ Forget(p)
    \/ WaitDone(p)

(* the steps of a Get call that has begun: the scheduler runs every goroutine
   that can run, and gorm.Open terminates *)
Step(p) ==
  \/ Hit(p)
  \/ Miss(p)
  \/ DoLead(p)
  \/ DoJoin(p)
  \/ OpenOk(p)
  \/ \E e \in OpenErrs : OpenFail(p, e)
  \/ Use(p)
  \/ LockBegin(p)
  \/ LockAcquire(p)
  \/ Store(p)
  \/ FnReturn(p)
  \/ Forget(p)
  \/ WaitDone(p)

(* ---------------- registry: what the claims speak of ---------------- *)
Done(p) == pc[p] = "done"
Returned(p) == Done(p) /\ outcome[p].kind = "return"
(* the leaders whose gorm.Open was invoked for name n *)
Opens(n) == {c \in Procs : calls[c].key = n /\ calls[c].opened}
(* some gorm.Open for name n has failed *)
OpenFailed(n) ==
  \E c \in Procs : calls[c].key = n /\ (err[c] # NilErr \/ calls[c].err # NilErr)
(* the call p took part in ended with an error *)
TookPartInFailure(p) == call[p] # NoCall /\ calls[call[p]].err # NilErr

(* ---------------- plugin: Initialize and the error accumulator -------- *)
(* the stage identifiers, in the order Initialize registers them *)
Stages ==
  << "otel:before_create", "otel:after_create",
     "otel:before_update", "otel:after_update",
     "otel:before_query", "otel:after_query",
     "otel:before_delete", "otel:after_delete",
     "otel:before_row", "otel:after_row",
     "otel:before_raw", "otel:after_raw" >>

StageNames == {Stages[i] : i \in DOMAIN Stages}

(* what a failing Register reports *)
RegErrs == {"conflict"}

(* strings are sequences of tokens; strings.Join(elems, sep) *)
RECURSIVE Join(_, _)
Join(elems, sep) ==
  IF Len(elems) = 0 THEN <<>>
  ELSE IF Len(elems) = 1 THEN elems[1]
  ELSE elems[1] \o <<sep>> \o Join(Tail(elems), sep)

(* a faulty variant: only the first failure is kept *)
addFirstOnly(es, stage, e) ==
  IF e = NilErr \/ Len(es) > 0 THEN es
  ELSE Append(es, <<"stage=", stage, ":", e>>)

(* a faulty variant: an entry is appended whether or not there is an error *)
addAlways(es, stage, e) == Append(es, <<"stage=", stage, ":", e>>)

(* myError.add: e.errs = append(e.errs, "stage="+stage.Name()+":"+err.Error()) *)
add(es, stage, e) ==
  IF e = NilErr THEN es
  ELSE Append(es, <<"stage=", stage, ":", e>>)

(* a faulty variant: the entries are joined newest first *)
ErrorNewestFirst(es) ==
  Join([i \in 1..Len(es) |-> es[Len(es) + 1 - i]], ";")

(* myError.Error *)
Error(es) == Join(es, ";")

(* myError.toError: nil, or the accumulator itself, whose message is Error() *)
toError(es) ==
  IF Len(es) = 0 THEN [nil |-> TRUE, msg |-> <<>>]
  ELSE [nil |-> FALSE, msg |-> Error(es)]

InitPlugin ==
  /\ regLog = <<>>
  /\ hooks = {}
  /\ errs = <<>>
  /\ initRet = [state |-> "running", nil |-> TRUE, msg |-> <<>>]

(* the next db.Callback()...Register(stage, fn) succeeds; e.add(stage, nil) *)
RegisterOk ==
  /\ initRet.state = "running"
  /\ Len(regLog) < Len(Stages)
  /\ hooks' = hooks \cup {Stages[Len(regLog) + 1]}
  /\ errs' = add(errs, Stages[Len(regLog) + 1], NilErr)
  /\ regLog' = Append(regLog, NilErr)
  /\ UNCHANGED <<initRet, regVars, hookVars, optVars, accVars>>

(* the next Register fails with err; e.add(stage, err) *)
RegisterFail(e) ==
  /\ initRet.state = "running"
  /\ Len(regLog) < Len(Stages)
  /\ errs' = add(errs, Stages[Len(regLog) + 1], e)
  /\ regLog' = Append(regLog, e)
  /\ UNCHANGED <<hooks, initRet, regVars, hookVars, optVars, accVars>>

(* return e.toError() *)
InitializeReturn ==
  /\ initRet.state = "running"
  /\ Len(regLog) = Len(Stages)
  /\ initRet' = [state |-> "returned", nil |-> toError(errs).nil,
                 msg |-> toError(errs).msg]
  /\ UNCHANGED <<regLog, hooks, errs, regVars, hookVars, optVars, accVars>>

NextInitialize ==
  \/ RegisterOk
  \/ \E e \in RegErrs : RegisterFail(e)
  \/ InitializeReturn

(* the stage identifiers an error message names *)
StagesNamed(msg) == {msg[i] : i \in DOMAIN msg} \cap StageNames
FailedStages == {Stages[i] : i \in {j \in DOMAIN regLog : regLog[j] # NilErr}}
SucceededStages == {Stages[i] : i \in {j \in DOMAIN regLog : regLog[j] = NilErr}}

(* ---------------- the error accumulator on its own ---------------- *)
(* the stages and errors the add calls are made with *)
AddStages == {Stages[1], Stages[2]}
AddErrs == {NilErr, "conflict", "invalid"}

InitAccumulator ==
  /\ accLog = <<>>
  /\ accErrs = <<>>
  /\ accRet = <<>>

(* e.add(stage, err) *)
Add(stage, e) ==
  /\ accRet = <<>>
  /\ Len(accLog) < MaxAdds
  /\ accErrs' = add(accErrs, stage, e)
  /\ accLog' = Append(accLog, [stage |-> stage, err |-> e])
  /\ UNCHANGED <<accRet, regVars, plugVars, hookVars, optVars>>

(* e.toError() *)
ToError ==
  /\ accRet = <<>>
  /\ accRet' = <<toError(accErrs)>>
  /\ UNCHANGED <<accLog, accErrs, regVars, plugVars, hookVars, optVars>>

NextAccumulator ==
  \/ \E stage \in AddStages, e \in AddErrs : Add(stage, e)
  \/ ToError

(* the add calls that carried an error, in call order *)
Carried == SelectSeq(accLog, LAMBDA c : c.err # NilErr)

(* ---------------- plugin: options and New ---------------- *)
(* tracer providers: nil, the process-wide one of otel.GetTracerProvider(),
   and the ones a caller can supply *)
NilTracer == "nil"
DefaultTracer == "global"
Tracers == {"T1", "T2"}

(* defaultOption() *)
defaultOption ==
  [logResult |-> FALSE, tracer |-> DefaultTracer, logSqlParameters |-> TRUE]

(* WithLogResult(logResult) applied to o *)
WithLogResult(logResult, o) == [o EXCEPT !.logResult = logResult]

(* a faulty variant: a nil tracer provider is stored like any other *)
WithTracerStoresNil(t, o) == [o EXCEPT !.tracer = t]

(* WithTracer(t) applied to o *)
WithTracer(t, o) ==
  IF t = NilTracer THEN o ELSE [o EXCEPT !.tracer = t]

(* WithSqlParameters(logSqlParameters) applied to o *)
WithSqlParameters(logSqlParameters, o) ==
  [o EXCEPT !.logSqlParameters = logSqlParameters]

(* the ApplyOption values a caller can build: which constructor, and its
   argument *)
ApplyOptions ==
  [fn : {"WithLogResult", "WithSqlParameters"}, b : BOOLEAN, t : {NilTracer}]
    \cup [fn : {"WithTracer"}, b : {FALSE}, t : Tracers \cup {NilTracer}]

(* apply(dst) *)
apply(a, o) ==
  CASE a.fn = "WithLogResult" -> WithLogResult(a.b, o)
    [] a.fn = "WithTracer" -> WithTracer(a.t, o)
    [] a.fn = "WithSqlParameters" -> WithSqlParameters(a.b, o)

(* for _, apply := range opts { apply(dst) } *)
RECURSIVE applyAll(_, _)
applyAll(opts, dst) ==
  IF Len(opts) = 0 THEN dst
  ELSE applyAll(Tail(opts), apply(Head(opts), dst))

(* New(opts...): the options of the plugin it returns *)
New(opts) == applyAll(opts, defaultOption)

(* the option lists of at most MaxOpts options *)
OptSeqs == UNION {[1..k -> ApplyOptions] : k \in 0..MaxOpts}

(* the option lists the hooks' plugin is built from: none, any one option,
   and the list Get passes, New(WithLogResult(false), WithSqlParameters(true)) *)
GetOpts ==
  << [fn |-> "WithLogResult", b |-> FALSE, t |-> NilTracer],
     [fn |-> "WithSqlParameters", b |-> TRUE, t |-> NilTracer] >>
HookOptSeqs == {<<>>, GetOpts} \cup {<<a>> : a \in ApplyOptions}

InitNew ==
  /\ given = <<>>
  /\ plugin = <<>>

(* New(opts...) *)
NewCall(opts) ==
  /\ plugin = <<>>
  /\ given' = opts
  /\ plugin' = <<New(opts)>>
  /\ UNCHANGED <<regVars, plugVars, hookVars, accVars>>

NextNew == \E opts \in OptSeqs : NewCall(opts)

(* op.opt *)
opt == plugin[1]

(* ---------------- hooks: injectBefore and extractAfter ---------------- *)
Ops == 1..MaxOps
OperationKinds == {"create", "update", "query", "delete", "row", "raw"}
(* what the host hands the hook: db == nil, db.Statement == nil,
   db.Statement.Context == nil, or all three present *)
Contexts == {"nildb", "nilstmt", "nilctx", "ok"}
(* statements: SQL text with "?" placeholders, and the bound values *)
Stmts == { [sql |-> <<"SELECT", "?">>, vars |-> <<"42">>],
           [sql |-> <<"DELETE">>, vars |-> <<>>] }

NoOp == "none"
NoStmt == [sql |-> <<>>, vars |-> <<>>]
(* the instance store of one operation: under each key no value or one *)
EmptyInst == [start_time |-> <<>>, span |-> <<>>]
(* db.InstanceGet(key): (value, isExist) *)
IsExist(o, key) == Len(inst[o][key]) = 1
InstanceGet(o, key) == inst[o][key][1]

(* time: the zero time.Time, the wall clock at the start of the run, and the
   largest time.Duration, at which Time.Sub saturates *)
ZeroTime == 0
Epoch == 8
MaxDuration == 5

(* the host keeps one operation's hooks in order: before, then after; a
   before hook that failed to register never runs *)
InitHooks ==
  /\ opCtx = [o \in Ops |-> NoOp]
  /\ opStmt = [o \in Ops |-> NoStmt]
  /\ inst = [o \in Ops |-> EmptyInst]
  /\ ran = [o \in Ops |-> {}]
  /\ spans = [o \in Ops |-> <<>>]
  /\ logs = [o \in Ops |-> <<>>]
  /\ now = Epoch

(* the host starts operation o: the handle, statement and context the hooks
   of this operation will be given *)
NewOp(o, c, st) ==
  /\ plugin # <<>>
  /\ opCtx[o] = NoOp
  /\ opCtx' = [opCtx EXCEPT ![o] = c]
  /\ opStmt' = [opStmt EXCEPT ![o] = st]
  /\ UNCHANGED <<inst, ran, spans, logs, now, regVars, plugVars, optVars, accVars>>

(* a faulty variant: only a nil handle counts as an absent context *)
NoContextNilDBOnly(o) == opCtx[o] = "nildb"

(* db == nil || db.Statement == nil, or db.Statement.Context == nil *)
NoContext(o) == opCtx[o] \in {"nildb", "nilstmt", "nilctx"}

(* the name op.opt holds for each kind: defaultOption's *)
OpName(k) == k

(* span.SetAttributes: dropped once the span has ended *)
SetAttributes(sp, kv) ==
  IF sp.ended THEN sp ELSE [sp EXCEPT !.attrs = Append(@, kv)]

(* span.End *)
End(sp) == [sp EXCEPT !.ended = TRUE]

(* tr.Start(ctx, name) with the global tracer otel.Tracer("MySQL-Operation"),
   then the two SetAttributes calls of injectBefore *)
StartSpan(spanName) ==
  SetAttributes(
    SetAttributes([name |-> spanName, tracer |-> DefaultTracer, attrs |-> <<>>,
                   ended |-> FALSE],
                  <<"db.system", "mysql">>),
    <<"db.name", "mysql">>)

(* db.Dialector.Explain(sql, vars...): each placeholder takes the next value *)
RECURSIVE Explain(_, _)
Explain(sql, vs) ==
  IF Len(sql) = 0 THEN <<>>
  ELSE IF Head(sql) = "?" /\ Len(vs) > 0
         THEN <<Head(vs)>> \o Explain(Tail(sql), Tail(vs))
         ELSE <<Head(sql)>> \o Explain(Tail(sql), vs)

(* time.Since(t): time.Now().Sub(t), saturating at the largest Duration *)
Since(t) == IF now - t > MaxDuration THEN MaxDuration ELSE now - t

(* a faulty variant: the span is ended before the SQL attribute is set *)
FinishSpanEndFirst(sp, sql) == SetAttributes(End(sp), <<"db.statement", sql>>)

(* spanner.SetAttributes(util.DBStatementKey.String(sql)); spanner.End() *)
FinishSpan(sp, sql) == End(SetAttributes(sp, <<"db.statement", sql>>))

(* beforeCreate ... beforeRaw: injectBefore(db, op.opt.<kind>OpName) *)
Before(o, k) ==
  /\ opCtx[o] # NoOp
  /\ ran[o] = {}
  /\ ran' = [ran EXCEPT ![o] = {"before"}]
  /\ IF NoContext(o)
       THEN UNCHANGED <<inst, spans>>
       ELSE /\ spans' = [spans EXCEPT ![o] = Append(@, StartSpan(OpName(k)))]
            /\ inst' = [inst EXCEPT ![o] =
                          [start_time |-> <<now>>,
                           span |-> <<Len(spans[o]) + 1>>]]
  /\ UNCHANGED <<opCtx, opStmt, logs, now, regVars, plugVars, optVars, accVars>>

(* after: extractAfter(db) *)
After(o) ==
  /\ opCtx[o] # NoOp
  /\ "after" \notin ran[o]
  /\ ran' = [ran EXCEPT ![o] = @ \cup {"after"}]
  /\ IF NoContext(o)
       THEN UNCHANGED <<spans, logs>>
       ELSE LET startTime == IF IsExist(o, "start_time")
                               THEN InstanceGet(o, "start_time") ELSE ZeroTime
                sql == Explain(opStmt[o].sql, opStmt[o].vars)
            IN /\ spans' = IF IsExist(o, "span")
                             THEN [spans EXCEPT ![o][InstanceGet(o, "span")] =
                                     FinishSpan(@, sql)]
                             ELSE spans
               /\ logs' = [logs EXCEPT ![o] =
                             Append(@, [name |-> "mysql",
                                        cost |-> Since(startTime),
                                        sql |-> sql])]
  /\ UNCHANGED <<opCtx, opStmt, inst, now, regVars, plugVars, optVars, accVars>>

(* the wall clock advances *)
Tick ==
  /\ now < Epoch + MaxTicks
  /\ now' = now + 1
  /\ UNCHANGED <<opCtx, opStmt, inst, ran, spans, logs, regVars, plugVars, optVars, accVars>>

NextHooks ==
  \/ \E opts \in HookOptSeqs : NewCall(opts)
  \/ \E o \in Ops, c \in Contexts, st \in Stmts : NewOp(o, c, st)
  \/ \E o \in Ops, k \in OperationKinds : Before(o, k)
  \/ \E o \in Ops : After(o)
  \/ Tick

(* ---------------- specifications ---------------- *)
vars == <<regVars, plugVars, hookVars, optVars, accVars>>

Init == InitRegistry /\ InitPlugin /\ InitHooks /\ InitNew /\ InitAccumulator

(* the registry under concurrent Get calls *)
Spec == Init /\ [][Next]_vars

(* the registry under a fair scheduler *)
Fairness == \A p \in Procs : WF_vars(Step(p))
SpecFair == Spec /\ Fairness

(* one run of OpentracingPlugin.Initialize *)
SpecInitialize == Init /\ [][NextInitialize]_vars

(* the host running the hooks of one plugin around its operations *)
SpecHooks == Init /\ [][NextHooks]_vars

(* New over the option lists *)
SpecNew == Init /\ [][NextNew]_vars

(* one myError under add calls, then toError *)
SpecAccumulator == Init /\ [][NextAccumulator]_vars

(* ---------------- registry: claims ---------------- *)

(* C1: while every open for a name succeeds, open is invoked at most once for
   that name, whatever the interleaving of the Get calls that missed it. *)
C1_OpenAtMostOnce ==
  \A n \in Names : ~OpenFailed(n) => Cardinality(Opens(n)) <= 1

(* C2: the Get calls for one name that began before it was cached and whose
   initialization succeeded all return the same handle. *)
C2_SameHandle ==
  \A p, q \in Procs :
    ( /\ Returned(p) /\ Returned(q)
      /\ name[p] = name[q]
      /\ startCached[p] = NilDB /\ startCached[q] = NilDB
      /\ ~OpenFailed(name[p]) )
    => outcome[p].db = outcome[q].db

(* C3: every Get call that took part in a failed attempt, leader or waiter,
   returns normally with that attempt's non-nil error. *)
C3_FailureReturned ==
  \A p \in Procs :
    (Done(p) /\ TookPartInFailure(p))
    => /\ outcome[p].kind = "return"
       /\ outcome[p].err # NilErr
       /\ outcome[p].err = calls[call[p]].err

(* C4: a failed open never writes the mapping, so what is cached is always the
   handle of a successful open; and a Get that begins after a failed attempt
   has completed is never served that attempt: unless it returns a cached
   handle, its result comes from an attempt for its name, with its own open,
   that had not completed when the Get began. *)
C4_FailureNotCached ==
  /\ \A s \in stored : ~s.failed
  /\ \A n \in Names :
       dbs[n] # NilDB =>
         /\ calls[dbs[n]].key = n /\ calls[dbs[n]].opened
         /\ err[dbs[n]] = NilErr /\ calls[dbs[n]].err = NilErr
  /\ \A p \in Procs :
       call[p] # NoCall => call[p] \notin startCompleted[p]
  /\ \A p \in Procs :
       Done(p) =>
         \/ /\ call[p] = NoCall
            /\ outcome[p].kind = "return"
            /\ [name |-> name[p], db |-> outcome[p].db, failed |-> FALSE] \in stored
         \/ /\ call[p] # NoCall
            /\ calls[call[p]].key = name[p]
            /\ calls[call[p]].opened

(* a Get began after a failed attempt for its name had completed, found no
   entry, and has run open again *)
C4_Witness ==
  \E p \in Procs :
    /\ \E c \in startCompleted[p] : calls[c].err # NilErr
    /\ call[p] = p /\ calls[p].opened
    /\ dbs[name[p]] = NilDB

(* C5: a Get that begins when its name is in the mapping never enters the
   single-flight group (so never opens) and returns, with a nil error, a
   handle that was stored for that name. *)
C5_CachedNeverOpens ==
  \A p \in Procs :
    startCached[p] # NilDB
    => /\ call[p] = NoCall
       /\ pc[p] \in {"read", "done"}
       /\ Done(p) =>
            /\ outcome[p].kind = "return"
            /\ outcome[p].err = NilErr
            /\ [name |-> name[p], db |-> outcome[p].db, failed |-> FALSE] \in stored

(* a Get that began with its name cached has returned while the single-flight
   group still holds the key *)
C5_Witness ==
  \E p \in Procs :
    startCached[p] # NilDB /\ Done(p) /\ sfgM[name[p]] # NoCall

(* C6: every handle in the mapping, and every handle a Get has returned, has
   been through db.Use before. *)
C6_PluginBeforePublish ==
  /\ \A n \in Names : dbs[n] # NilDB => dbs[n] \in used
  /\ \A p \in Procs : Returned(p) => outcome[p].db \in used

(* a handle is in the mapping and a Get has returned it *)
C6_Witness ==
  \E p \in Procs : Returned(p) /\ dbs[name[p]] = outcome[p].db

(* ---------------- plugin: claims ---------------- *)

(* C7: Initialize returns only after all twelve registrations were attempted;
   it returns nil exactly when none failed, otherwise one error whose message
   names exactly the stages that failed; the hooks installed are exactly
   those whose registration succeeded. *)
C7_InitializeAggregates ==
  initRet.state = "returned" =>
    /\ Len(regLog) = Len(Stages)
    /\ Cardinality(StageNames) = 12
    /\ initRet.nil <=> FailedStages = {}
    /\ ~initRet.nil => StagesNamed(initRet.msg) = FailedStages
    /\ hooks = SucceededStages

(* Initialize has returned after three of the twelve registrations failed *)
C7_Witness ==
  /\ initRet.state = "returned"
  /\ Cardinality(FailedStages) = 3
  /\ Cardinality(hooks) = 9

(* ---------------- hooks: claims ---------------- *)

(* C8: for an operation with a context, before starts exactly one span and
   stores start_time and that span in the operation's instance store; the
   span stays open until after runs; after sets the SQL text as the span's
   last attribute and ends it; the only span ever ended is the stored one. *)
C8_SpanPaired ==
  \A o \in Ops :
    opCtx[o] = "ok" =>
      /\ Len(spans[o]) = (IF "before" \in ran[o] THEN 1 ELSE 0)
      /\ "before" \in ran[o] =>
           /\ IsExist(o, "span") /\ InstanceGet(o, "span") = 1
           /\ IsExist(o, "start_time")
           /\ InstanceGet(o, "start_time") \in Epoch..now
      /\ \A i \in DOMAIN spans[o] :
           /\ spans[o][i].ended <=> "after" \in ran[o]
           /\ spans[o][i].ended =>
                /\ IsExist(o, "span") /\ InstanceGet(o, "span") = i
                /\ spans[o][i].attrs[Len(spans[o][i].attrs)] =
                     <<"db.statement", Explain(opStmt[o].sql, opStmt[o].vars)>>

(* an operation with a context has had its before and its after hook run *)
C8_Witness ==
  \E o \in Ops : opCtx[o] = "ok" /\ ran[o] = {"before", "after"}

(* C9: after run on an operation for which no before ran sets no attribute,
   ends no span, and logs one line whose elapsed duration is zero. *)
C9_AfterAloneZeroElapsed ==
  \A o \in Ops :
    (opCtx[o] = "ok" /\ ran[o] = {"after"}) =>
      /\ inst[o] = EmptyInst
      /\ spans[o] = <<>>
      /\ Len(logs[o]) = 1
      /\ logs[o][1].cost = 0

(* C10: a hook run on an operation whose handle, statement or context is nil
   leaves every instance store and every span as they were. *)
C10_AbsentContextNoOp ==
  [][ \A o \in Ops :
        (opCtx[o] \in {"nildb", "nilstmt", "nilctx"} /\ ran'[o] # ran[o])
        => (inst' = inst /\ spans' = spans /\ logs' = logs) ]_vars

(* both hooks have run on an operation without a context *)
C10_Witness ==
  \E o \in Ops :
    opCtx[o] \in {"nildb", "nilstmt", "nilctx"} /\ ran[o] = {"before", "after"}

(* ---------------- registry: locking, progress, stability ---------------- *)

(* C15: a Get inside gorm.Open holds neither the read nor the write lock; the
   lock is held only by readers at the map lookup and by a writer publishing;
   so while some Get is inside open, a reader that found its name cached can
   return, and, unless a writer is publishing, an arriving Get can take the
   read lock. *)
C15_NoLockWhileOpen ==
  /\ \A p \in Procs : pc[p] = "open" => p \notin rwlReaders /\ rwlWriter # p
  /\ \A q \in rwlReaders : pc[q] = "read"
  /\ rwlWriter # NoProc => pc[rwlWriter] \in {"lockwait", "store"}
  /\ \A q \in Procs :
       (pc[q] = "read" /\ dbs[name[q]] # NilDB) => ENABLED Hit(q)
  /\ \A q \in Procs, n \in Names :
       (pc[q] = "idle" /\ rwlWriter = NoProc)
         => ENABLED (\E d \in Dsns : RLock(q, n, d))

(* one Get is inside open while another holds the read lock on a different,
   cached name *)
C15_Witness ==
  \E p, q \in Procs :
    /\ pc[p] = "open"
    /\ pc[q] = "read"
    /\ name[q] # name[p]
    /\ dbs[name[q]] # NilDB

(* under a fair scheduler and terminating opens every Get call that has begun
   eventually ends, by returning or by panicking *)
EveryGetEnds ==
  \A p \in Procs : (pc[p] = "read") ~> Done(p)

(* C16: under a fair scheduler and terminating opens every Get call that has
   begun eventually returns to its caller: it eventually ends (EveryGetEnds),
   and a Get call that has ended has returned. *)
C16_EveryGetReturns ==
  \A p \in Procs : Done(p) => outcome[p].kind = "return"

(* C17: every handle that was ever stored for a name is the handle the name
   is still mapped to. *)
C17_EntryNeverReplaced ==
  \A s \in stored : dbs[s.name] = s.db

(* C19: while every open for a name succeeds, whatever connection strings the
   Get calls for that name carry, open is invoked at most once for it and
   every call that has returned for it returned one and the same handle; a
   connection string is kept for open only by the leader of an attempt. *)
C19_KeyedByNameAlone ==
  /\ \A n \in Names :
       ~OpenFailed(n) =>
         /\ Cardinality(Opens(n)) <= 1
         /\ \A p, q \in Procs :
              (Returned(p) /\ Returned(q) /\ name[p] = n /\ name[q] = n)
                => outcome[p].db = outcome[q].db
  /\ \A c \in Procs :
       calls[c].dsn # NoDsn => call[c] = c /\ pc[c] = "open"
  /\ \A p \in Procs : dsn[p] # NoDsn => pc[p] \in {"read", "do"}

(* C20: the mapping is written only by the holder of the write lock, with no
   reader and no other writer at the mapping, and read only by holders of the
   read lock, with no writer at the mapping. *)
C20_MapAccessUnderLock ==
  \A p \in Procs :
    /\ pc[p] = "store" =>
         /\ rwlWriter = p
         /\ rwlReaders = {}
         /\ \A q \in Procs \ {p} : pc[q] \notin {"read", "store"}
    /\ pc[p] = "read" =>
         /\ p \in rwlReaders
         /\ \A q \in Procs : pc[q] # "store"

(* a writer is at the mapping while a second writer waits for the lock and a
   third Get has left the lookup for the slow path *)
C20_Witness ==
  \E p, q, r \in Procs :
    /\ pc[p] = "store"
    /\ pc[q] = "lock"
    /\ pc[r] = "do"
    /\ p # q

(* ---------------- options and accumulator: claims ---------------- *)

(* the bound values of a statement that occur in a SQL text *)
Embeds(sql, vs) ==
  \E j \in DOMAIN vs : \E i \in DOMAIN sql : sql[i] = vs[j]

(* C11: for a statement with bound values, the SQL text after derives, in the
   log line and in the span's db.statement attribute, embeds the bound values
   exactly when the plugin's logSqlParameters option is true. *)
C11_SqlParametersControl ==
  \A o \in Ops :
    Len(opStmt[o].vars) > 0 =>
      /\ \A i \in DOMAIN logs[o] :
           Embeds(logs[o][i].sql, opStmt[o].vars) <=> opt.logSqlParameters
      /\ \A i \in DOMAIN spans[o] : \A k \in DOMAIN spans[o][i].attrs :
           spans[o][i].attrs[k][1] = "db.statement" =>
             (Embeds(spans[o][i].attrs[k][2], opStmt[o].vars)
                <=> opt.logSqlParameters)

(* the last index of given at which a constructor fn was used with an
   argument that takes effect; 0 when there is none *)
LastGiven(fn) ==
  LET idx == {i \in DOMAIN given :
                /\ given[i].fn = fn
                /\ fn = "WithTracer" => given[i].t # NilTracer}
  IN IF idx = {} THEN 0 ELSE CHOOSE i \in idx : \A j \in idx : j <= i

(* C12: the plugin New returns has, as its tracer, the last non-nil provider
   given to WithTracer, or the default provider when there is none, and never
   nil; logResult and logSqlParameters are the last values given, or the
   defaults false and true. *)
C12_EffectiveTracer ==
  plugin # <<>> =>
    /\ opt.tracer # NilTracer
    /\ opt.tracer = IF LastGiven("WithTracer") = 0 THEN DefaultTracer
                    ELSE given[LastGiven("WithTracer")].t
    /\ opt.logResult = IF LastGiven("WithLogResult") = 0 THEN FALSE
                       ELSE given[LastGiven("WithLogResult")].b
    /\ opt.logSqlParameters = IF LastGiven("WithSqlParameters") = 0 THEN TRUE
                              ELSE given[LastGiven("WithSqlParameters")].b

(* New was given two providers and then a nil one, and kept the second *)
C12_Witness ==
  /\ plugin # <<>>
  /\ Len(given) = 3
  /\ given[1].fn = "WithTracer" /\ given[1].t = "T1"
  /\ given[2].fn = "WithTracer" /\ given[2].t = "T2"
  /\ given[3].fn = "WithTracer" /\ given[3].t = NilTracer
  /\ opt.tracer = "T2"

(* C13 as the text has it: the entries are, in call order, one per add call
   that carried an error, each equal to stage + ":" + error.message. *)
C13_EntryStageColonMessage ==
  /\ Len(accErrs) = Len(Carried)
  /\ \A k \in DOMAIN accErrs :
       accErrs[k] = <<Carried[k].stage, ":", Carried[k].err>>

(* C13: the entries are, in call order, one per add call that carried an
   error, each equal to "stage=" + stage + ":" + error.message; an add call
   without an error leaves the entries as they were. *)
C13_EntryPrefixedStageColonMessage ==
  /\ Len(accErrs) = Len(Carried)
  /\ \A k \in DOMAIN accErrs :
       accErrs[k] = <<"stage=", Carried[k].stage, ":", Carried[k].err>>

(* an add with an error, one without, and one with a different error *)
C13_Witness ==
  /\ Len(accLog) = 3
  /\ accLog[1].err = "conflict"
  /\ accLog[2].err = NilErr
  /\ accLog[3].err = "invalid"
  /\ accLog[1].stage # accLog[3].stage
  /\ Len(accErrs) = 2

(* the entries of the first k add calls that carried an error, separated by
   ";", built from the last one backwards *)
RECURSIVE Expected(_)
Expected(k) ==
  LET entry == <<"stage=", Carried[k].stage, ":", Carried[k].err>>
  IN IF k = 1 THEN entry ELSE Expected(k - 1) \o <<";">> \o entry

(* C14: toError returns nil exactly when no add call carried an error;
   otherwise it returns one error whose message is the entries of the add
   calls that carried one, in call order, separated by ";". *)
C14_ToErrorJoins ==
  accRet # <<>> =>
    /\ accRet[1].nil <=> (\A i \in DOMAIN accLog : accLog[i].err = NilErr)
    /\ ~accRet[1].nil => accRet[1].msg = Expected(Len(Carried))

(* toError has returned the joined entries of two different failures *)
C14_Witness ==
  /\ accRet # <<>>
  /\ ~accRet[1].nil
  /\ Len(Carried) = 2
  /\ Carried[1] # Carried[2]

(* C18: every span the before hook started was started through the tracer
   provider of the plugin's options. *)
C18_SpanThroughConfiguredTracer ==
  \A o \in Ops : \A i \in DOMAIN spans[o] : spans[o][i].tracer = opt.tracer

====
